---- MODULE Spec2Model ----
(***************************************************************************)
(* Model of mgba-test-runner/c/test-runner.c: the Runner (struct MGBA)     *)
(* that binds an mGBA core to a video buffer and a log callback.           *)
(*                                                                         *)
(* Pointers are small integers: NULL is 0, a Runner handle is its index in *)
(* Runners, and the core and the pixel buffer that new_runner obtains for  *)
(* Runner r are both named r.  A field that malloc left unwritten holds    *)
(* Indeterminate.  C strings are sequences of one-character strings.       *)
(***************************************************************************)
EXTENDS Integers, Sequences, FiniteSets, TLC

\* ------------------------------------------------------------------ bounds
MaxRunners == 2
MaxFrames == 2
MaxSetLogger == 2
MaxOps == 4

\* ------------------------------------------------------- program constants
\* mLOG_* are the values of enum mLogLevel in mGBA's core/log.h, which
\* log_level_str switches over.
NULL == 0
Indeterminate == -1
BYTES_PER_PIXEL == 4
SizeofUint32 == 4
LogMask == 31
Harmless == -2

mLOG_FATAL == 1
mLOG_ERROR == 2
mLOG_WARN == 4
mLOG_INFO == 8
mLOG_DEBUG == 16
mLOG_STUB == 32
mLOG_GAME_ERROR == 64

Runners == 1..MaxRunners

\* ------------------------------------------------------------ input sets
\* The callbacks a host passes to set_logger: sink s has context s,
\* invocation function s and teardown function s.
Sinks == {1, 2}
Sink(s) == [data |-> s, callback |-> s, destroy |-> s]

\* Files handed to new_runner; mCoreFind recognises the first two.
Files == {"rom.gba", "rom.gb", "notes.txt"}

\* ---------------------------------------------------------------- strings
Take(s, n) == IF n <= 0 THEN <<>> ELSE SubSeq(s, 1, IF n < Len(s) THEN n ELSE Len(s))

\* x & y on non-negative integers, bit by bit
RECURSIVE BitAnd(_, _)
BitAnd(x, y) ==
  IF x = 0 \/ y = 0 THEN 0
  ELSE (IF x % 2 = 1 /\ y % 2 = 1 THEN 1 ELSE 0) + 2 * BitAnd(x \div 2, y \div 2)

log_level_str(level) ==
  CASE level = mLOG_FATAL -> <<"F","A","T","A","L">>
    [] level = mLOG_ERROR -> <<"E","R","R","O","R">>
    [] level = mLOG_WARN -> <<"W","A","R","N","I","N","G">>
    [] level = mLOG_INFO -> <<"I","N","F","O">>
    [] level = mLOG_DEBUG -> <<"D","E","B","U","G">>
    [] level = mLOG_STUB -> <<"S","T","U","B">>
    [] level = mLOG_GAME_ERROR -> <<"G","A","M","E"," ","E","R","R","O","R">>
    [] OTHER -> <<"U","n","k","n","o","w","n">>

\* The engine's category -> name lookup, for the categories the model emits.
mLogCategoryName(category) ==
  CASE category = 0 -> <<"c","a","t">>
    [] category = 1 -> <<"G","B","A">>
    [] OTHER -> <<>>

\* snprintf(buf, size, "[%s] %s: ", log_level_str(level), mLogCategoryName(category)):
\* the text the format produces; SnprintfRet is what the call returns and
\* SnprintfBuf what lands in a buffer of `size` bytes (size - 1 characters
\* and the terminating NUL).
LogPrefix(category, level) ==
  <<"[">> \o log_level_str(level) \o <<"]", " ">> \o mLogCategoryName(category) \o <<":", " ">>
SnprintfRet(text) == Len(text)
SnprintfBuf(size, text) == Take(text, size - 1)

\* LogString without the `size += 1` for the terminating NUL (mutant)
LogString_nonul(category, level, message) ==
  LET prefix == LogPrefix(category, level)
      size2 == SnprintfRet(prefix) + SnprintfRet(message)
      offset == SnprintfRet(prefix)
  IN  SnprintfBuf(size2, prefix) \o SnprintfBuf(size2 - offset, message)

\* The string log_output builds (lines 89-104): the size is measured with two
\* dry runs, the buffer is calloc'ed, the prefix is printed at 0 and the
\* message at `offset` into what is left of the buffer.
LogString(category, level, message) ==
  LET prefix == LogPrefix(category, level)
      size0 == 0
      size1 == size0 + SnprintfRet(prefix)
      size2 == size1 + SnprintfRet(message)
      size3 == size2 + 1
      offset == SnprintfRet(prefix)
      size4 == size3 - offset
  IN  SnprintfBuf(size3, prefix) \o SnprintfBuf(size4, message)

\* The filter of log_output, line 88: if (level & 31)
LogFilter(level) == BitAnd(level, LogMask) # 0

\* --------------------------------------------------------- log records
\* What the engine hands to the logger: category, level, formatted message.
\* Records are the records of the Runner life cycle (one that passes the
\* filter and one that does not); LogRecords are those of the log formatter.
Levels == {mLOG_FATAL, mLOG_STUB}
Records == [category : {0}, level : Levels, message : {<<"b","o","o","m">>}]
\* every value of enum mLogLevel, no bit, several bits inside the mask, bits on
\* both sides of it, several bits outside it, and a bit above the enumeration
LogLevels ==
  {mLOG_FATAL, mLOG_ERROR, mLOG_WARN, mLOG_INFO, mLOG_DEBUG, mLOG_STUB, mLOG_GAME_ERROR,
   0, mLOG_FATAL + mLOG_ERROR, mLOG_FATAL + mLOG_STUB, mLOG_STUB + mLOG_GAME_ERROR,
   2 * mLOG_GAME_ERROR}
LogRecords == [category : {0, 1}, level : LogLevels, message : {<<>>, <<"b","o","o","m">>}]

\* The engine emits at most one record per Runner operation; `at` names the
\* engine call during which it is emitted.
NoLogs == <<>>
Emissions(R, calls) == {NoLogs} \cup {<<[rec |-> x, at |-> c]>> : x \in R, c \in calls}

\* What a read of an indeterminate word (never written, or in freed memory)
\* can yield: NULL, a pointer some sink left there, a pointer to code that
\* returns without effect, or garbage (Indeterminate) that faults when called.
IndeterminateReads == {NULL, Indeterminate, Harmless} \cup Sinks
Resolve(v, ub) == IF v = Indeterminate THEN ub ELSE v
ReadsFor(indeterminate) == IF indeterminate THEN IndeterminateReads ELSE {NULL}

\* --------------------------------------------------------------- state
VARIABLES
  mgba,           \* [Runners -> struct MGBA], the fields new_runner and set_logger write
  heap,           \* [Runners -> allocation state of the struct, the filename copy, the pixel buffer]
  core,           \* [Runners -> the engine instance mCoreFind returned for that Runner]
  defaultLogger,  \* the engine's process-wide logger: a Runner handle or NULL
  handles,        \* the handles the host holds: returned by new_runner, not yet passed to free_runner
  hist,           \* [Runners -> what the host and free_runner did, for the properties]
  out,            \* the last operation: its return value and the log records it dispatched
  crashed         \* the process has faulted

vars == <<mgba, heap, core, defaultLogger, handles, hist, out, crashed>>

NoView == [width |-> 0, height |-> 0, buffer |-> NULL]
NoOut ==
  [op |-> "none", runner |-> NULL, handle |-> NULL, view |-> NoView, log |-> <<>>,
   emitted |-> <<>>, printed |-> "", loaded |-> FALSE]

\* struct MGBA as malloc returns it (line 22): nothing written yet
FreshMGBA ==
  [mlogger |-> "indeterminate", core |-> Indeterminate,
   videoBuffer |-> [width |-> Indeterminate, height |-> Indeterminate, buffer |-> Indeterminate],
   filename |-> Indeterminate,
   callback |-> [data |-> Indeterminate, callback |-> Indeterminate, destroy |-> Indeterminate]]

NoCore ==
  [file |-> "", calls |-> <<>>, videoBuffer |-> NULL, stride |-> 0,
   frames |-> 0, deinits |-> 0, pixels |-> 0]

NoHeap == [mgba |-> "none", filename |-> "none", buffer |-> "none", bufferBytes |-> 0]

NoHist ==
  [filename |-> "", set_logger |-> <<>>, teardown |-> <<>>, advance |-> 0, free |-> <<>>]

Init ==
  /\ mgba = [r \in Runners |-> FreshMGBA]
  /\ heap = [r \in Runners |-> NoHeap]
  /\ core = [r \in Runners |-> NoCore]
  /\ defaultLogger = NULL
  /\ handles = {}
  /\ hist = [r \in Runners |-> NoHist]
  /\ out = NoOut
  /\ crashed = FALSE

\* ------------------------------------------------------------ log_output
\* log_output keeping the string for later instead of calling the callback or
\* printf at lines 106-109 (mutant)
log_output_queued(log, cb, live, from, at, rec, ub) ==
  [from |-> from, via |-> log, at |-> at, level |-> rec.level, category |-> rec.category,
   message |-> rec.message, dest |-> "none", fn |-> NULL, data |-> NULL,
   text |-> LogString(rec.category, rec.level, rec.message)]

\* log_output (lines 82-113) for one record, called by the engine with the
\* logger `log` it has registered.  `cb` is the callback stored in the struct
\* MGBA that `log` is cast to and `live` tells whether that struct is still
\* allocated; a read of a freed struct yields `ub`.
log_output(log, cb, live, from, at, rec, ub) ==
  LET str == LogString(rec.category, rec.level, rec.message)
      fn == IF live THEN Resolve(cb.callback, ub) ELSE ub
      data == IF live THEN Resolve(cb.data, ub) ELSE ub
      base == [from |-> from, via |-> log, at |-> at, level |-> rec.level,
               category |-> rec.category, message |-> rec.message]
  IN  IF ~LogFilter(rec.level)
        THEN base @@ [dest |-> "none", fn |-> NULL, data |-> NULL, text |-> <<>>]
      ELSE IF fn = NULL
        THEN base @@ [dest |-> "stdout", fn |-> NULL, data |-> NULL, text |-> str]
      ELSE IF fn = Indeterminate
        THEN base @@ [dest |-> "fault", fn |-> fn, data |-> data, text |-> str]
      ELSE IF fn = Harmless
        THEN base @@ [dest |-> "lost", fn |-> fn, data |-> data, text |-> str]
      ELSE base @@ [dest |-> "sink", fn |-> fn, data |-> data, text |-> str]

\* mLog: the engine passes every record it emits to the default logger
\* `logger`.  `m` and `h` are the Runner structs and the heap at the call.
mLog(logger, m, h, from, logs, ub) ==
  [i \in 1..Len(logs) |->
     log_output(logger, m[logger].callback, h[logger].mgba = "live",
                from, logs[i].at, logs[i].rec, ub)]

\* The logger reads a callback that is indeterminate: the struct it is cast
\* to was freed, or the function pointer was never written.
LoggerIndeterminate(logger, m, h, logs) ==
  /\ logs # NoLogs
  /\ (h[logger].mgba # "live" \/ m[logger].callback.callback = Indeterminate)

\* The calls the host has made that change a Runner (the model's horizon)
RECURSIVE OpsOf(_)
OpsOf(S) ==
  IF S = {} THEN 0
  ELSE LET r == CHOOSE x \in S : TRUE
       IN  (IF heap[r].mgba = "none" THEN 0 ELSE 1) + Len(hist[r].set_logger)
           + hist[r].advance + (IF hist[r].free = <<>> THEN 0 ELSE 1) + OpsOf(S \ {r})
OpsLeft == OpsOf(Runners) < MaxOps

Faulted(dispatched) == \E i \in 1..Len(dispatched) : dispatched[i].dest = "fault"

\* ------------------------------------------------------------ new_runner
\* mCoreFind (line 31): the core for a file some engine recognises, else NULL.
\* The core found for Runner r is named r.
Supported == {"rom.gba", "rom.gb"}
mCoreFind(filename, r) == IF filename \in Supported THEN r ELSE NULL

\* core->desiredVideoDimensions (line 40): what the engine reports
desiredVideoDimensions(filename) ==
  IF filename = "rom.gba" THEN [width |-> 240, height |-> 160]
                          ELSE [width |-> 160, height |-> 144]

\* line 41: videoBufferSize = width * height * BYTES_PER_PIXEL.  The product
\* of the dimensions an engine reports is far below 2^32, so the unsigned
\* arithmetic does not wrap.
VideoBufferSize(width, height) == width * height * BYTES_PER_PIXEL

\* line 43: the argument of malloc, videoBufferSize * sizeof(*videoBuffer)
VideoBufferBytes(width, height) == VideoBufferSize(width, height) * SizeofUint32

\* line 32, if (!core), without the early return (mutant)
CoreMissing_never(c) == FALSE
\* line 32: if (!core)
CoreMissing(c) == c = NULL

\* new_runner resetting the core before the ROM is loaded (mutant)
NewRunnerCalls_resetfirst(c) ==
  IF c = NULL THEN <<"mCoreFind">>
  ELSE <<"mCoreFind", "init", "desiredVideoDimensions", "setVideoBuffer",
         "reset", "mCoreLoadFile", "mCoreConfigInit">>
\* The engine calls new_runner makes, in order (lines 31-52)
NewRunnerCalls(c) ==
  IF CoreMissing(c) THEN <<"mCoreFind">>
  ELSE <<"mCoreFind", "init", "desiredVideoDimensions", "setVideoBuffer",
         "mCoreLoadFile", "mCoreConfigInit", "reset">>

\* The engine calls of new_runner during which the engine may log
CreateLoggingCalls(c) ==
  IF CoreMissing(c) THEN {"mCoreFind"} ELSE {"mCoreFind", "init", "mCoreLoadFile", "reset"}

\* lines 23-29 without the callback.callback = NULL of line 24 (mutant)
InitMGBA_nonull(r) == [FreshMGBA EXCEPT !.mlogger = "log_output", !.filename = r]
\* struct MGBA after lines 22-29: the logger function, a NULL invocation
\* function and the filename copy are set, the rest is as malloc left it
InitMGBA(r) ==
  [FreshMGBA EXCEPT !.mlogger = "log_output", !.callback.callback = NULL, !.filename = r]

\* lines 54-59: the core and the video buffer are stored in the struct
WireMGBA(m, c, buf, dims) ==
  [m EXCEPT !.core = c,
            !.videoBuffer = [buffer |-> buf, width |-> dims.width, height |-> dims.height]]

\* new_runner giving up when mCoreLoadFile reports failure (mutant)
NewRunnerReturn_loadchecked(r, loadOk) == IF loadOk THEN r ELSE NULL
\* lines 48 and 61: the result of mCoreLoadFile is dropped and the Runner is
\* returned whatever it was
NewRunnerReturn(r, loadOk) == r

new_runner(filename, mallocOk, bufferOk, loadOk, R) ==
  /\ ~crashed
  /\ OpsLeft
  /\ \E r \in Runners :
       /\ heap[r].mgba = "none"
       /\ \A q \in Runners : q < r => heap[q].mgba # "none"
       /\ IF ~mallocOk
            \* line 22 returns NULL and line 23 writes through it
            THEN /\ crashed' = TRUE
                 /\ out' = [NoOut EXCEPT !.op = "new_runner"]
                 /\ UNCHANGED <<mgba, heap, core, defaultLogger, handles, hist>>
            ELSE LET c == mCoreFind(filename, r)
                     dims == desiredVideoDimensions(filename)
                     buf == IF bufferOk THEN r ELSE NULL
                     m1 == [mgba EXCEPT ![r] = InitMGBA(r)]
                     h1 == [heap EXCEPT ![r].mgba = "live", ![r].filename = "live"]
                 IN  \E logs \in Emissions(R, CreateLoggingCalls(c)),
                        ub \in ReadsFor(LoggerIndeterminate(r, m1, h1, <<1>>)) :
                       LET dispatched == mLog(r, m1, h1, r, logs, ub)
                       IN  /\ defaultLogger' = r
                           /\ IF Faulted(dispatched)
                                THEN /\ crashed' = TRUE
                                     /\ mgba' = m1
                                     /\ heap' = h1
                                     /\ core' = [core EXCEPT ![r].calls =
                                                   IF logs[1].at = "mCoreFind" THEN <<"mCoreFind">>
                                                   ELSE NewRunnerCalls(c)]
                                     /\ out' = [NoOut EXCEPT !.op = "new_runner", !.runner = r,
                                                             !.log = dispatched, !.emitted = logs]
                                     /\ UNCHANGED <<handles>>
                              ELSE IF CoreMissing(c)
                                THEN /\ mgba' = m1
                                     /\ heap' = h1
                                     /\ core' = [core EXCEPT ![r].calls = NewRunnerCalls(c)]
                                     /\ out' = [NoOut EXCEPT !.op = "new_runner", !.runner = r,
                                                             !.handle = NULL, !.log = dispatched,
                                                             !.emitted = logs,
                                                             !.printed = "failed to find core"]
                                     /\ UNCHANGED <<handles, crashed>>
                                ELSE /\ mgba' = [m1 EXCEPT ![r] = WireMGBA(m1[r], c, buf, dims)]
                                     /\ heap' = [h1 EXCEPT
                                                   ![r].buffer = IF bufferOk THEN "live" ELSE "none",
                                                   ![r].bufferBytes =
                                                     IF bufferOk
                                                       THEN VideoBufferBytes(dims.width, dims.height)
                                                       ELSE 0]
                                     /\ core' = [core EXCEPT ![r] =
                                                   [NoCore EXCEPT !.file = filename,
                                                                  !.calls = NewRunnerCalls(c),
                                                                  !.videoBuffer = buf,
                                                                  !.stride = dims.width]]
                                     /\ handles' = handles \cup ({NewRunnerReturn(r, loadOk)} \ {NULL})
                                     /\ out' = [NoOut EXCEPT !.op = "new_runner", !.runner = r,
                                                             !.handle = NewRunnerReturn(r, loadOk),
                                                             !.log = dispatched, !.emitted = logs,
                                                             !.loaded = loadOk]
                                     /\ UNCHANGED crashed
                           /\ hist' = [hist EXCEPT ![r].filename = filename]

\* ------------------------------------------------------------ set_logger
\* line 65 that also tears down the callback it replaces (mutant)
SetLoggerTeardown_old(old) == <<<<old.destroy, old.data>>>>
\* The teardown calls set_logger makes: none (line 65 is a plain assignment)
SetLoggerTeardown(old) == <<>>

set_logger(r, callback) ==
  /\ ~crashed
  /\ OpsLeft
  /\ r \in handles
  /\ Len(hist[r].set_logger) < MaxSetLogger
  /\ mgba' = [mgba EXCEPT ![r].callback = callback]
  /\ hist' = [hist EXCEPT ![r].set_logger = Append(@, callback),
                          ![r].teardown = @ \o SetLoggerTeardown(mgba[r].callback)]
  /\ out' = [NoOut EXCEPT !.op = "set_logger", !.runner = r]
  /\ UNCHANGED <<heap, core, defaultLogger, handles, crashed>>

\* --------------------------------------------------------- advance_frame
\* line 76 running two frames per call (mutant)
RunFrames_twice(frames) == frames + 2
\* line 76: one core->runFrame per call
RunFrames(frames) == frames + 1

advance_frame(r, R) ==
  /\ ~crashed
  /\ OpsLeft
  /\ r \in handles
  /\ hist[r].advance < MaxFrames
  /\ \E logs \in Emissions(R, {"runFrame"}) :
     \E ub \in ReadsFor(LoggerIndeterminate(defaultLogger, mgba, heap, logs)) :
       LET c == mgba[r].core
           dispatched == mLog(defaultLogger, mgba, heap, r, logs, ub)
           \* the engine renders through the pointer setVideoBuffer gave it
           nobuffer == core[c].videoBuffer = NULL
       IN  /\ core' = [core EXCEPT ![c].frames = RunFrames(@),
                                   ![c].pixels = IF nobuffer THEN @ ELSE RunFrames(core[c].frames)]
           /\ crashed' = (nobuffer \/ Faulted(dispatched))
           /\ out' = [NoOut EXCEPT !.op = "advance_frame", !.runner = r, !.log = dispatched,
                                   !.emitted = logs]
  /\ hist' = [hist EXCEPT ![r].advance = @ + 1]
  /\ UNCHANGED <<mgba, heap, defaultLogger, handles>>

\* ------------------------------------------------------ get_video_buffer
\* line 79 returning a copy of the pixels instead of the stored pointer (mutant)
get_video_buffer_copy(m) == [m.videoBuffer EXCEPT !.buffer = m.videoBuffer.buffer + MaxRunners]
\* line 79: return mgba->videoBuffer
get_video_buffer_ret(m) == m.videoBuffer

get_video_buffer(r) ==
  /\ ~crashed
  /\ r \in handles
  /\ out' = [NoOut EXCEPT !.op = "get_video_buffer", !.runner = r,
                          !.view = get_video_buffer_ret(mgba[r])]
  /\ UNCHANGED <<mgba, heap, core, defaultLogger, handles, hist, crashed>>

\* ----------------------------------------------------------- free_runner
\* free_runner releasing the pixel buffer before the filename (mutant)
FreeSteps_bufferfirst ==
  <<"deinit", "destroy", "free videoBuffer", "free filename", "free mgba">>
\* The steps of free_runner in order (lines 69-73)
FreeSteps == <<"deinit", "destroy", "free filename", "free videoBuffer", "free mgba">>

\* line 70: mgba->callback.destroy(mgba->callback.data); a field no one wrote
\* reads as `ub`
TeardownCall(cb, ub) == [fn |-> Resolve(cb.destroy, ub), data |-> Resolve(cb.data, ub)]

\* A call through NULL or through garbage faults
CallFaults(fn) == fn \in {NULL, Indeterminate}

free_runner(r, R) ==
  /\ ~crashed
  /\ OpsLeft
  /\ r \in handles
  /\ \E logs \in Emissions(R, {"deinit"}) :
     \E ub \in ReadsFor(\/ LoggerIndeterminate(defaultLogger, mgba, heap, logs)
                         \/ mgba[r].callback.destroy = Indeterminate) :
       LET c == mgba[r].core
           dispatched == mLog(defaultLogger, mgba, heap, r, logs, ub)
           call == TeardownCall(mgba[r].callback, ub)
           done == IF Faulted(dispatched) THEN 1
                   ELSE IF CallFaults(call.fn) THEN 2
                   ELSE Len(FreeSteps)
       IN  /\ core' = [core EXCEPT ![c].deinits = @ + 1]
           /\ hist' = [hist EXCEPT
                         ![r].free = SubSeq(FreeSteps, 1, done),
                         ![r].teardown =
                           IF done >= 2 /\ call.fn \in Sinks
                             THEN Append(@, <<call.fn, call.data>>) ELSE @]
           /\ heap' = IF done = Len(FreeSteps)
                        THEN [heap EXCEPT ![r].filename = "freed",
                                          ![r].buffer = IF @ = "live" THEN "freed" ELSE @,
                                          ![r].mgba = "freed"]
                        ELSE heap
           /\ crashed' = (done < Len(FreeSteps))
           /\ out' = [NoOut EXCEPT !.op = "free_runner", !.runner = r, !.log = dispatched,
                                   !.emitted = logs]
  /\ handles' = handles \ {r}
  /\ UNCHANGED <<mgba, defaultLogger>>

\* ------------------------------------------------------------------ Next
NextOver(R) ==
  \/ \E f \in Files, mallocOk \in BOOLEAN, bufferOk \in BOOLEAN, loadOk \in BOOLEAN :
       new_runner(f, mallocOk, bufferOk, loadOk, R)
  \/ \E r \in Runners, s \in Sinks : set_logger(r, Sink(s))
  \/ \E r \in Runners : advance_frame(r, R)
  \/ \E r \in Runners : get_video_buffer(r)
  \/ \E r \in Runners : free_runner(r, R)

Next == NextOver(Records)

Spec == Init /\ [][Next]_vars

\* The log formatter on its own: one Runner of a supported file, any
\* callback, and frames during which the engine emits any record.
NextLog ==
  \/ handles = {} /\ new_runner("rom.gba", TRUE, TRUE, TRUE, {})
  \/ \E r \in Runners, s \in Sinks : set_logger(r, Sink(s))
  \/ \E r \in Runners : advance_frame(r, LogRecords)

SpecLog == Init /\ [][NextLog]_vars

\* ================================================================ claims
Destroyed(r) == hist[r].free = FreeSteps
TeardownOf(cb) == <<cb.destroy, cb.data>>

\* C1: free_runner on a Runner on which set_logger was never called completes
\* normally and its teardown step is a no-op: once it reaches the teardown it
\* runs all its steps and calls no sink's teardown function.
C1_DestroyWithoutLoggerIsNoop ==
  \A r \in Runners :
    (hist[r].set_logger = <<>> /\ Len(hist[r].free) >= 2)
      => (Destroyed(r) /\ hist[r].teardown = <<>> /\ ~crashed)

\* C2: get_video_buffer right after a successful new_runner returns the
\* dimensions the engine reported, and the pixel buffer is width*height*4
\* bytes long.
C2_ViewDimensionsAndByteLength ==
  \A r \in Runners :
    (out.op = "get_video_buffer" /\ out.runner = r /\ out.view.buffer # NULL
       /\ hist[r].set_logger = <<>> /\ hist[r].advance = 0)
      => /\ out.view.width = desiredVideoDimensions(hist[r].filename).width
         /\ out.view.height = desiredVideoDimensions(hist[r].filename).height
         /\ heap[r].bufferBytes = out.view.width * out.view.height * 4

\* C3: new_runner on a file no engine recognises returns NULL, hands out no
\* Runner, and makes no engine call after mCoreFind.
C3_UnsupportedFileNoRunner ==
  \A r \in Runners :
    (heap[r].mgba # "none" /\ hist[r].filename \notin Supported)
      => /\ core[r].calls = <<"mCoreFind">>
         /\ r \notin handles
         /\ hist[r].free = <<>>
         /\ (out.op = "new_runner" /\ out.runner = r) => out.handle = NULL

C3_Witness ==
  /\ out.op = "new_runner" /\ out.runner # NULL /\ out.handle = NULL
  /\ hist[out.runner].filename = "notes.txt"
  /\ out.printed = "failed to find core"
  /\ ~crashed

\* C4: a failed allocation of the Runner or of the pixel buffer aborts
\* new_runner: it does not go on to use the failed allocation and it returns
\* no Runner without a pixel buffer.
C4_AllocationFailureAborts ==
  out.op = "new_runner"
    => /\ ~crashed
       /\ out.handle # NULL
            => /\ mgba[out.handle].videoBuffer.buffer # NULL
               /\ core[out.handle].videoBuffer # NULL

\* C5: every record the engine emits is delivered iff (level & 0x1F) # 0, and
\* a delivered record goes to exactly one destination: the invocation function
\* of the callback registered on the logger's Runner if there is one, else the
\* default stream.
C5_FilterAndSingleDestination ==
  \A i \in 1..Len(out.log) :
    LET d == out.log[i]
        cb == mgba[d.via].callback
    IN  IF d.level % 32 = 0
          THEN d.dest = "none"
        ELSE IF cb.callback # NULL
          THEN d.dest = "sink" /\ d.fn = cb.callback /\ d.data = cb.data
        ELSE d.dest = "stdout"

\* The level names of the claim
LevelName(level) ==
  CASE level = 1 -> "FATAL" [] level = 2 -> "ERROR" [] level = 4 -> "WARNING"
    [] level = 8 -> "INFO" [] level = 16 -> "DEBUG" [] level = 32 -> "STUB"
    [] level = 64 -> "GAME ERROR" [] OTHER -> "Unknown"
Chars(name) ==
  CASE name = "FATAL" -> <<"F","A","T","A","L">>
    [] name = "ERROR" -> <<"E","R","R","O","R">>
    [] name = "WARNING" -> <<"W","A","R","N","I","N","G">>
    [] name = "INFO" -> <<"I","N","F","O">>
    [] name = "DEBUG" -> <<"D","E","B","U","G">>
    [] name = "STUB" -> <<"S","T","U","B">>
    [] name = "GAME ERROR" -> <<"G","A","M","E"," ","E","R","R","O","R">>
    [] name = "Unknown" -> <<"U","n","k","n","o","w","n">>
    [] name = "cat" -> <<"c","a","t">>
    [] name = "GBA" -> <<"G","B","A">>
CategoryLabel(category) == IF category = 0 THEN "cat" ELSE "GBA"

\* C6: every delivered record reads "[<LEVEL_NAME>] <category_name>: <message>",
\* with the name of the level if it is exactly one value of the enumeration
\* and "Unknown" otherwise.
C6_DeliveredTextIsFormatted ==
  \A i \in 1..Len(out.log) :
    LET d == out.log[i]
    IN  d.dest \in {"sink", "stdout"}
          => d.text = <<"[">> \o Chars(LevelName(d.level)) \o <<"]", " ">>
                        \o Chars(CategoryLabel(d.category)) \o <<":", " ">> \o d.message

\* "[FATAL] cat: boom" has been delivered to a sink
C6_Witness ==
  /\ Len(out.log) = 1
  /\ out.log[1].dest = "sink"
  /\ out.log[1].level = mLOG_FATAL
  /\ out.log[1].text = <<"[","F","A","T","A","L","]"," ","c","a","t",":"," ","b","o","o","m">>

\* C7: after set_logger(A), set_logger(B) and free_runner on one Runner, the
\* teardown calls made for that Runner are exactly one call of B's teardown
\* function with B's context, and none of A's.
C7_OnlyLastSinkTornDown ==
  \A r \in Runners :
    (Destroyed(r) /\ Len(hist[r].set_logger) = 2)
      => hist[r].teardown = <<TeardownOf(hist[r].set_logger[2])>>

C7_Witness ==
  \E r \in Runners :
    /\ Destroyed(r)
    /\ hist[r].set_logger = <<Sink(1), Sink(2)>>
    /\ hist[r].teardown = <<TeardownOf(Sink(2))>>

\* C8: once free_runner has been called on a Runner, the engine has been
\* deinitialised once, the teardown of the callback registered last has been
\* called once, and the pixel buffer, the filename copy and the Runner are
\* freed: nothing the Runner owns is still allocated.
C8_DestroyReleasesEverythingOnce ==
  \A r \in Runners :
    hist[r].free # <<>>
      => /\ Destroyed(r)
         /\ core[r].deinits = 1
         /\ Len(hist[r].teardown) = 1
         /\ heap[r].mgba = "freed"
         /\ heap[r].filename = "freed"
         /\ heap[r].buffer # "live"

\* C9: N calls of advance_frame on a Runner are N runFrame calls of its own
\* engine, which renders into the Runner's own buffer, and no step between
\* new_runner and free_runner changes what get_video_buffer reports.
C9_FramesCountedViewStable ==
  /\ [](\A r \in Runners :
          /\ core[r].frames = hist[r].advance
          /\ r \in handles
               => /\ mgba[r].core = r
                  /\ core[r].videoBuffer = mgba[r].videoBuffer.buffer
                  /\ core[r].videoBuffer # NULL => core[r].pixels = hist[r].advance)
  /\ [][\A r \in handles \cap handles' :
          get_video_buffer_ret(mgba'[r]) = get_video_buffer_ret(mgba[r])]_vars

C9_Witness ==
  \E r \in handles :
    /\ hist[r].advance = 2
    /\ core[r].frames = 2
    /\ core[r].pixels = 2
    /\ hist[r].set_logger # <<>>
    /\ ~crashed

\* C10: get_video_buffer changes nothing but its own return value, which is
\* the stored width and height and the very pointer the engine renders
\* through (no copy).
C10_GetVideoBufferIsPure ==
  [][out'.op = "get_video_buffer"
       => /\ UNCHANGED <<mgba, heap, core, defaultLogger, handles, hist, crashed>>
          /\ out'.view = mgba[out'.runner].videoBuffer
          /\ out'.view.buffer = core[mgba[out'.runner].core].videoBuffer]_vars

C10_Witness ==
  /\ out.op = "get_video_buffer"
  /\ out.view.buffer # NULL
  /\ out.view.buffer = core[out.runner].videoBuffer
  /\ out.view.width = 240 /\ out.view.height = 160
  /\ core[out.runner].pixels >= 1

IsPrefix(s, t) == Len(s) <= Len(t) /\ s = SubSeq(t, 1, Len(s))

\* C11 as stated: the steps free_runner performs are, in this order, engine
\* deinit, callback teardown, release of the video buffer, release of the
\* filename, release of the Runner.
C11_OrderBufferBeforeFilename ==
  \A r \in Runners :
    IsPrefix(hist[r].free,
             <<"deinit", "destroy", "free videoBuffer", "free filename", "free mgba">>)

\* C11 amended: the steps free_runner performs are, in this order, engine
\* deinit, callback teardown, release of the filename, release of the video
\* buffer, release of the Runner.
C11_OrderFilenameBeforeBuffer ==
  \A r \in Runners :
    IsPrefix(hist[r].free,
             <<"deinit", "destroy", "free filename", "free videoBuffer", "free mgba">>)

C11_Witness ==
  \E r \in Runners :
    /\ Len(hist[r].free) = 5
    /\ out.op = "free_runner" /\ out.runner = r
    /\ heap[r].mgba = "freed"

Last(s) == s[Len(s)]
Passes(d) == d.level % 32 # 0

\* C12: set_logger replaces the Runner's callback and nothing else: it calls
\* no teardown and no invocation function, makes no engine call, leaves the
\* engine, the filename and the video buffer alone; and every record that the
\* Runner's engine emits afterwards and that passes the filter is delivered
\* to the sink registered last.
C12_SetLoggerReplacesOnlyCallback ==
  [][/\ out'.op = "set_logger"
          => /\ mgba' = [mgba EXCEPT ![out'.runner].callback = Last(hist'[out'.runner].set_logger)]
             /\ hist'[out'.runner].teardown = hist[out'.runner].teardown
             /\ out'.log = <<>>
             /\ UNCHANGED <<heap, core, defaultLogger, handles, crashed>>
     /\ \A i \in 1..Len(out'.log) :
          LET d == out'.log[i]
              registered == hist'[d.from].set_logger
          IN  (Passes(d) /\ registered # <<>>)
                => /\ d.dest = "sink"
                   /\ d.fn = Last(registered).callback
                   /\ d.data = Last(registered).data]_vars

\* C13: a new_runner that returns a Runner has called the engine in the order
\* find, init, desiredVideoDimensions, setVideoBuffer, loadFile, default
\* configuration, reset, each once, with stride = width; the Runner holds
\* that engine and the buffer given to setVideoBuffer, which is the buffer
\* allocated for the reported dimensions when the allocation succeeded.
C13_CreateCallOrderAndWiring ==
  \A r \in Runners :
    (r \in handles \/ hist[r].free # <<>>)
      => /\ core[r].calls = <<"mCoreFind", "init", "desiredVideoDimensions", "setVideoBuffer",
                              "mCoreLoadFile", "mCoreConfigInit", "reset">>
         /\ mgba[r].core = r
         /\ core[r].stride = mgba[r].videoBuffer.width
         /\ core[r].videoBuffer = mgba[r].videoBuffer.buffer
         /\ mgba[r].videoBuffer.width = desiredVideoDimensions(hist[r].filename).width
         /\ mgba[r].videoBuffer.height = desiredVideoDimensions(hist[r].filename).height
         /\ heap[r].buffer # "none" => (core[r].videoBuffer = r /\ heap[r].bufferBytes > 0)
         /\ (out.op = "new_runner" /\ out.runner = r) => core[r].frames = 0

C13_Witness ==
  /\ out.op = "new_runner" /\ out.handle # NULL
  /\ heap[out.handle].buffer = "live"
  /\ Len(core[out.handle].calls) = 7
  /\ core[out.handle].videoBuffer = mgba[out.handle].videoBuffer.buffer
  /\ core[out.handle].stride = 240

\* C14: when the engine is found and loadFile reports failure, new_runner
\* still applies the configuration, resets the engine and returns the Runner,
\* and reports nothing to the caller.
C14_LoadFailureIsNotFatal ==
  (/\ out.op = "new_runner" /\ out.runner # NULL /\ ~crashed
   /\ hist[out.runner].filename \in Supported
   /\ ~out.loaded)
    => /\ out.handle = out.runner
       /\ out.handle \in handles
       /\ out.printed = ""
       /\ SubSeq(core[out.runner].calls, 5, 7) = <<"mCoreLoadFile", "mCoreConfigInit", "reset">>

C14_Witness ==
  /\ out.op = "new_runner" /\ out.handle # NULL /\ ~out.loaded
  /\ hist[out.handle].filename = "rom.gba"
  /\ Last(core[out.handle].calls) = "reset"

\* C15: every record the engine emits during an advance_frame is run through
\* the filter and, if it passes, handed to its destination within that call,
\* and the call changes no Runner struct, allocation, handle or logger
\* registration.
C15_LogDeliveryIsSynchronous ==
  [][out'.op = "advance_frame"
       => /\ Len(out'.log) = Len(out'.emitted)
          /\ \A i \in 1..Len(out'.emitted) :
               /\ out'.log[i].level = out'.emitted[i].rec.level
               /\ out'.log[i].message = out'.emitted[i].rec.message
               /\ out'.log[i].at = "runFrame"
               /\ out'.log[i].from = out'.runner
               /\ Passes(out'.log[i]) <=> out'.log[i].dest # "none"
          /\ UNCHANGED <<mgba, heap, handles, defaultLogger>>]_vars

C15_Witness ==
  /\ out.op = "advance_frame" /\ ~crashed
  /\ Len(out.log) = 1 /\ out.log[1].dest = "sink"
  /\ out.log[1].fn = mgba[out.runner].callback.callback

\* C16: no record is dispatched by reading a freed Runner, none is delivered
\* to a sink whose teardown has been called, and a record the engine emits in
\* deinit through the Runner being destroyed reaches that Runner's sink.
C16_NoDispatchAfterTeardown ==
  \A i \in 1..Len(out.log) :
    LET d == out.log[i]
    IN  /\ Passes(d) => (heap[d.via].mgba = "live" \/ (out.op = "free_runner" /\ out.runner = d.via))
        /\ d.dest = "sink"
             => \A r \in Runners \ {out.runner} : <<d.fn, d.data>> \notin
                  {hist[r].teardown[k] : k \in 1..Len(hist[r].teardown)}
        /\ (/\ out.op = "free_runner" /\ d.via = out.runner /\ Passes(d)
            /\ hist[out.runner].set_logger # <<>>)
             => (d.dest = "sink" /\ d.fn = Last(hist[out.runner].set_logger).callback)

\* C17: every delivered record is dispatched through the Runner whose engine
\* emitted it: to that Runner's sink, or to the default stream if it has none.
C17_DispatchedThroughEmitter ==
  \A i \in 1..Len(out.log) :
    LET d == out.log[i]
        cb == mgba[d.from].callback
    IN  Passes(d)
          => /\ d.via = d.from
             /\ IF cb.callback # NULL
                  THEN d.dest = "sink" /\ d.fn = cb.callback /\ d.data = cb.data
                  ELSE d.dest = "stdout"

\* C18: every record emitted while new_runner runs is dispatched through the
\* Runner being created, whose invocation function is NULL by then: it goes
\* to the default stream if it passes the filter, never to a sink and never
\* through an indeterminate pointer.
C18_CreateLogsGoToStdout ==
  out.op = "new_runner"
    => /\ ~crashed => Len(out.log) = Len(out.emitted)
       /\ \A i \in 1..Len(out.log) :
            /\ out.log[i].via = out.runner
            /\ out.log[i].dest = IF Passes(out.log[i]) THEN "stdout" ELSE "none"

C18_Witness ==
  /\ out.op = "new_runner" /\ out.handle # NULL
  /\ Len(out.log) = 1
  /\ out.log[1].at = "init"
  /\ out.log[1].dest = "stdout"
  /\ mgba[out.runner].callback.destroy = Indeterminate

\* C19: a new_runner that fails because no engine recognises the file leaves
\* nothing behind: the struct and the filename copy are released and the
\* engine's default logger is the one registered before the call.
C19_FailedCreateLeavesNothing ==
  [][(out'.op = "new_runner" /\ out'.runner # NULL /\ out'.handle = NULL /\ ~crashed')
       => /\ heap'[out'.runner].mgba # "live"
          /\ heap'[out'.runner].filename # "live"
          /\ defaultLogger' = defaultLogger]_vars
====
